---- MODULE Spec2Model ----
(***************************************************************************)
(* Model of temci/tester/stats.py: the diagnostic messages (StatMessage    *)
(* and its six concrete kinds), their merge and the combine algorithm, and *)
(* the stat objects that create, combine and cache them.                   *)
(*                                                                         *)
(* Numbers are exact rationals [num, den] with den > 0: the thresholds     *)
(* 0.01 and 0.05 and the values compared against them are represented      *)
(* without rounding.  Property names are strings, ordered as Python orders *)
(* them (PropertyNames lists the names used, in ascending order).          *)
(***************************************************************************)
EXTENDS Integers, Sequences, FiniteSets, TLC

VARIABLES
    \* ---- StatMessage.combine, one call at a time ----
    messages,           \* the argument list of combine (None entries allowed)
    msgs,               \* combine's local set of messages
    something_changed,  \* combine's loop flag
    pc,                 \* position: "idle", "while", "returned", "created"
    ret,                \* the value returned by the last call
    call,               \* which call runs: "first", "permuted", "nested"
    n_input,            \* number of non-None messages of the running call
    merges,             \* merges done by the running call
    merged,             \* operands and result of the last msg + msg2
    first_ret,          \* content of the first call's result
    \* ---- create_if_valid, one call ----
    arg,                \* the value and property given to create_if_valid
    created,            \* per kind: what create_if_valid returned, or NotCalled
    \* ---- a TestedPairsAndSingles and the stat objects below it ----
    singles,            \* self.singles: the run each Single wraps
    pairs,              \* self.pairs: the TestedPair objects
    heap,               \* per stat object: its _stat_messages field
    returned,           \* the last get_stat_messages call and its result
    calls,              \* get_stat_messages calls made by the caller
    pairs_arg,          \* the pairs argument the constructor was given
    result              \* the last other call on a stat object and its result

combine_vars ==
    <<messages, msgs, something_changed, pc, ret, call, n_input, merges,
      merged, first_ret>>
create_vars == <<arg, created>>
stats_vars == <<singles, pairs, heap, returned, calls, pairs_arg, result>>
other_than_combine == <<create_vars, stats_vars>>
other_than_create == <<combine_vars, stats_vars>>
other_than_stats == <<combine_vars, create_vars>>
vars == <<combine_vars, create_vars, stats_vars>>

(***************************************************************************)
(* Numbers                                                                 *)
(***************************************************************************)
Rat(n, d) == [num |-> n, den |-> d]

Leq(x, y) == x.num * y.den <= y.num * x.den

Geq(x, y) == x.num * y.den >= y.num * x.den

(***************************************************************************)
(* Property names and sorted()                                             *)
(***************************************************************************)
PropertyNames == <<"a", "b", "c">>

Rank(p) == CHOOSE i \in 1..Len(PropertyNames) : PropertyNames[i] = p

RECURSIVE Insert(_, _)
Insert(p, s) ==
    IF s = <<>> THEN <<p>>
    ELSE IF Rank(p) < Rank(Head(s)) THEN <<p>> \o s
    ELSE <<Head(s)>> \o Insert(p, Tail(s))

RECURSIVE sorted(_)
sorted(s) ==
    IF s = <<>> THEN <<>>
    ELSE Insert(s[Len(s)], sorted(SubSeq(s, 1, Len(s) - 1)))

IsSorted(s) == \A i \in 1..(Len(s) - 1) : Rank(s[i]) <= Rank(s[i + 1])

NoDuplicates(s) == \A i, j \in 1..Len(s) : i # j => s[i] # s[j]

(***************************************************************************)
(* Stat objects as message subjects.  A subject carries what                *)
(* eq_except_property reads: its class, the run(s) it wraps, its tester     *)
(* and its property.                                                        *)
(***************************************************************************)
NoRun == "-"
NoTester == "-"
NoProperty == "-"

SinglePropertyObj(rundata, property) ==
    [cls |-> "SingleProperty", first |-> rundata, second |-> NoRun,
     tester |-> NoTester, property |-> property]

SingleObj(rundata) ==
    [cls |-> "Single", first |-> rundata, second |-> NoRun,
     tester |-> NoTester, property |-> NoProperty]

TestedPairObj(first, second, tester) ==
    [cls |-> "TestedPair", first |-> first, second |-> second,
     tester |-> tester, property |-> NoProperty]

TestedPairPropertyObj(first, second, tester, property) ==
    [cls |-> "TestedPairProperty", first |-> first, second |-> second,
     tester |-> tester, property |-> property]

NoParent ==
    [cls |-> "-", first |-> NoRun, second |-> NoRun, tester |-> NoTester,
     property |-> NoProperty]

\* RunData.__eq__ and Tester.__eq__ (collaborators): the same underlying run,
\* the same tester
RunEq(r1, r2) == r1 = r2

TesterEq(t1, t2) == t1 = t2

eq_except_property(self, other) ==
    CASE self.cls = "SingleProperty" ->
            other.cls = "SingleProperty" /\ RunEq(self.first, other.first)
      [] self.cls = "Single" ->
            other.cls = "Single" /\ RunEq(self.first, other.first)
      [] self.cls = "TestedPair" ->
            /\ other.cls = "TestedPair"
            /\ RunEq(self.first, other.first)
            /\ RunEq(self.second, other.second)
            /\ TesterEq(self.tester, other.tester)
      [] self.cls = "TestedPairProperty" ->
            /\ other.cls = "TestedPairProperty"
            /\ RunEq(self.first, self.second)
            /\ TesterEq(self.tester, other.tester)
      [] OTHER -> FALSE

(***************************************************************************)
(* Message kinds                                                           *)
(***************************************************************************)
Kinds ==
    {"StdDeviationToHighWarning", "StdDeviationToHighError",
     "NotEnoughObservationsWarning", "NotEnoughObservationsError",
     "EffectToSmallWarning", "EffectToSmallError"}

WARNING == "WARNING"
ERROR == "ERROR"

type(kind) ==
    IF kind \in {"StdDeviationToHighError", "NotEnoughObservationsError",
                 "EffectToSmallError"}
    THEN ERROR ELSE WARNING

border_value(kind) ==
    CASE kind = "StdDeviationToHighWarning" -> Rat(1, 100)
      [] kind = "StdDeviationToHighError" -> Rat(5, 100)
      [] kind = "NotEnoughObservationsWarning" -> Rat(30, 1)
      [] kind = "NotEnoughObservationsError" -> Rat(15, 1)
      [] kind = "EffectToSmallWarning" -> Rat(2, 1)
      [] kind = "EffectToSmallError" -> Rat(1, 1)

\* a faulty variant of check_value: the comparisons are strict
check_value_strict(kind, value) ==
    IF kind \in {"StdDeviationToHighWarning", "StdDeviationToHighError"}
    THEN ~Geq(value, border_value(kind))
    ELSE ~Leq(value, border_value(kind))

\* TRUE when the value is acceptable (no message is appropriate)
check_value(kind, value) ==
    IF kind \in {"StdDeviationToHighWarning", "StdDeviationToHighError"}
    THEN Leq(value, border_value(kind))
    ELSE Geq(value, border_value(kind))

(***************************************************************************)
(* Messages.  id stands for the identity of the Python object: a set of     *)
(* creation tags, the union of the operands' tags for a merged message.     *)
(***************************************************************************)
None ==
    [id |-> {}, kind |-> "None", parent |-> NoParent, properties |-> <<>>,
     values |-> <<>>]

\* StatMessage.__init__ for the class `kind`; properties and values are lists
StatMessage(id, kind, parent, properties, values) ==
    [id |-> id, kind |-> kind, parent |-> parent,
     properties |-> sorted(properties), values |-> values]

__add__(self, other) ==
    StatMessage(self.id \cup other.id, self.kind, self.parent,
                self.properties \o other.properties,
                self.values \o other.values)

create_if_valid(id, kind, parent, value, properties) ==
    IF check_value(kind, value) THEN None
    ELSE StatMessage(id, kind, parent, <<properties>>, <<value>>)

\* the (property, value) pairs of a message, as displayed by generate_msg_text
Pairs(m) == {<<m.properties[i], m.values[i]>> : i \in 1..Len(m.properties)}

\* what a message says, without its identity and subject
Content(m) == [kind |-> m.kind, properties |-> m.properties, values |-> m.values]

\* the multiset of the contents of a set of message objects
Multiset(S) ==
    {[content |-> Content(m),
      count |-> Cardinality({x \in S : Content(x) = Content(m)})] : m \in S}

(***************************************************************************)
(* StatMessage.combine                                                     *)
(***************************************************************************)
\* a faulty variant of MergeablePairs: the kinds are not compared
MergeablePairsAnyKind(S) ==
    {p \in S \X S :
        /\ p[1] # p[2]
        /\ eq_except_property(p[1].parent, p[2].parent)}

\* the pairs (msg, msg2) of itertools.product(msgs, msgs) that pass the test
\* of the inner loop; which of them comes first depends on the iteration
\* order of the set
MergeablePairs(S) ==
    {p \in S \X S :
        /\ p[1] # p[2]
        /\ eq_except_property(p[1].parent, p[2].parent)
        /\ p[1].kind = p[2].kind}

\* a faulty variant of Round: no new scan after a merge
RoundNoRescan(S) ==
    IF MergeablePairs(S) = {}
    THEN {[msgs |-> S, something_changed |-> FALSE, pair |-> <<>>]}
    ELSE {[msgs |-> (S \ {p[1], p[2]}) \cup {__add__(p[1], p[2])},
           something_changed |-> FALSE, pair |-> p] : p \in MergeablePairs(S)}

\* a faulty variant of Round: msg2 is not removed
RoundKeepSecond(S) ==
    IF MergeablePairs(S) = {}
    THEN {[msgs |-> S, something_changed |-> FALSE, pair |-> <<>>]}
    ELSE {[msgs |-> (S \ {p[1]}) \cup {__add__(p[1], p[2])},
           something_changed |-> TRUE, pair |-> p] : p \in MergeablePairs(S)}

\* the possible outcomes of one iteration of the while loop
Round(S) ==
    IF MergeablePairs(S) = {}
    THEN {[msgs |-> S, something_changed |-> FALSE, pair |-> <<>>]}
    ELSE {[msgs |-> (S \ {p[1], p[2]}) \cup {__add__(p[1], p[2])},
           something_changed |-> TRUE, pair |-> p] : p \in MergeablePairs(S)}

NotNone(list) == {list[i] : i \in {j \in 1..Len(list) : list[j] # None}}

NoMerge == [a |-> None, b |-> None, sum |-> None]


\* every fixed point the while loop can reach from S (combine's result, as a
\* set of message objects)
RECURSIVE combine(_)
combine(S) ==
    IF MergeablePairs(S) = {} THEN {S}
    ELSE UNION {combine(r.msgs) : r \in Round(S)}

(***************************************************************************)
(* Numeric helpers of SingleProperty and TestedPairProperty.  np.mean and   *)
(* np.std are computed exactly: the mean as sum / n, the (population)       *)
(* standard deviation as sqrt(n * sum of squares - sum^2) / n, which is an  *)
(* integer root for the observation sequences used here.  All means are     *)
(* positive, so no division by zero occurs.                                 *)
(***************************************************************************)
RECURSIVE Sum(_)
Sum(s) == IF s = <<>> THEN 0 ELSE Head(s) + Sum(Tail(s))

RECURSIVE SumSq(_)
SumSq(s) == IF s = <<>> THEN 0 ELSE Head(s) * Head(s) + SumSq(Tail(s))

ISqrt(k) == CHOOSE r \in 0..k : r * r <= k /\ k < (r + 1) * (r + 1)

Sub(x, y) == Rat(x.num * y.den - y.num * x.den, x.den * y.den)

Div(x, y) ==
    IF y.num > 0 THEN Rat(x.num * y.den, x.den * y.num)
    ELSE Rat(0 - x.num * y.den, x.den * (0 - y.num))

\* a faulty variant of max: the smaller of the two
min(x, y) == IF Geq(y, x) /\ ~Geq(x, y) THEN x ELSE y

max(x, y) == IF Geq(y, x) /\ ~Geq(x, y) THEN y ELSE x

mean(array) == Rat(Sum(array), Len(array))

std_dev(array) ==
    Rat(ISqrt(Len(array) * SumSq(array) - Sum(array) * Sum(array)), Len(array))

std_dev_per_mean(array) == Div(std_dev(array), mean(array))

observations(data) == Rat(Len(data), 1)

mean_diff(first, second) == Sub(mean(first), mean(second))

max_std_dev(first, second) == max(mean(first), mean(second))

mean_diff_per_dev(first, second) ==
    Div(mean_diff(first, second), max_std_dev(first, second))

(***************************************************************************)
(* The runs under analysis (RunData): property -> observation sequence.     *)
(* Data(n, x, d) has n observations alternating x - d and x + d: mean x and *)
(* standard deviation d for even n.                                         *)
(***************************************************************************)
Data(n, x, d) == [i \in 1..n |-> IF i % 2 = 1 THEN x - d ELSE x + d]

Runs ==
    [A |-> [a |-> Data(10, 100, 0), b |-> Data(20, 100, 0)],
     B |-> [a |-> Data(50, 100, 0), b |-> Data(50, 50, 0)],
     C |-> [b |-> Data(50, 100, 6)]]

RunNames == DOMAIN Runs

DefaultTester == "default"

(***************************************************************************)
(* Stat objects.  Each object of the graph below a TestedPairsAndSingles is *)
(* named by its place: the collection, singles[i], singles[i].properties[p],*)
(* pairs[k], pairs[k].properties[p] and the latter's first and second       *)
(* SingleProperty (side 1 and 2).  Indices are Python's, from 0.            *)
(***************************************************************************)
Collection == [t |-> "TestedPairsAndSingles", i |-> 0, p |-> NoProperty, side |-> 0]

Single(i) == [t |-> "Single", i |-> i, p |-> NoProperty, side |-> 0]

SingleProperty(i, p, side) == [t |-> "SingleProperty", i |-> i, p |-> p, side |-> side]

TestedPair(k) == [t |-> "TestedPair", i |-> k, p |-> NoProperty, side |-> 0]

TestedPairProperty(k, p) == [t |-> "TestedPairProperty", i |-> k, p |-> p, side |-> 0]

NoObject == [t |-> "-", i |-> 0, p |-> NoProperty, side |-> 0]

\* TestedPair.__init__ (line 599): the properties both runs have
SharedProperties(pair) == (DOMAIN Runs[pair.first]) \cap (DOMAIN Runs[pair.second])

Objects(S, P) ==
    {Collection}
    \cup {Single(i) : i \in 0..(Len(S) - 1)}
    \cup UNION {{SingleProperty(i, p, 0) : p \in DOMAIN Runs[S[i + 1]]} :
                    i \in 0..(Len(S) - 1)}
    \cup {TestedPair(k) : k \in 0..(Len(P) - 1)}
    \cup UNION {{TestedPairProperty(k, p) : p \in SharedProperties(P[k + 1])} :
                    k \in 0..(Len(P) - 1)}
    \cup UNION {{SingleProperty(k, p, side) :
                    p \in SharedProperties(P[k + 1]), side \in {1, 2}} :
                    k \in 0..(Len(P) - 1)}

\* the objects a caller reaches through the public attributes
Callable(S, P) == {o \in Objects(S, P) : o.side = 0}

\* the run a SingleProperty wraps
rundata(o) ==
    CASE o.side = 0 -> singles[o.i + 1]
      [] o.side = 1 -> pairs[o.i + 1].first
      [] o.side = 2 -> pairs[o.i + 1].second

\* the object as a message subject
Subject(o) ==
    CASE o.t = "SingleProperty" -> SinglePropertyObj(rundata(o), o.p)
      [] o.t = "Single" -> SingleObj(singles[o.i + 1])
      [] o.t = "TestedPair" ->
            TestedPairObj(pairs[o.i + 1].first, pairs[o.i + 1].second,
                          pairs[o.i + 1].tester)
      [] o.t = "TestedPairProperty" ->
            TestedPairPropertyObj(pairs[o.i + 1].first, pairs[o.i + 1].second,
                                  pairs[o.i + 1].tester, o.p)
      [] OTHER -> NoParent

PropertySeq(S) == SelectSeq(PropertyNames, LAMBDA p : p \in S)

\* the objects whose get_stat_messages the object's _get_stat_messages (or,
\* for the collection, its get_stat_messages) calls
Children(o) ==
    CASE o.t = "Single" ->
            LET ps == PropertySeq(DOMAIN Runs[singles[o.i + 1]])
            IN  [n \in 1..Len(ps) |-> SingleProperty(o.i, ps[n], 0)]
      [] o.t = "TestedPairProperty" ->
            <<SingleProperty(o.i, o.p, 1), SingleProperty(o.i, o.p, 2)>>
      [] o.t = "TestedPair" ->
            LET ps == PropertySeq(SharedProperties(pairs[o.i + 1]))
            IN  [n \in 1..Len(ps) |-> TestedPairProperty(o.i, ps[n])]
      [] o.t = "TestedPairsAndSingles" ->
            [n \in 1..Len(pairs) |-> TestedPair(n - 1)]
      [] OTHER -> <<>>

\* the messages the object's _get_stat_messages creates itself (None for a
\* check that passes)
OwnMessages(o) ==
    CASE o.t = "SingleProperty" ->
            LET data == Runs[rundata(o)][o.p]
                make(kind, value) ==
                    create_if_valid({<<o, kind>>}, kind, Subject(o), value, o.p)
            IN  {make("StdDeviationToHighWarning", std_dev_per_mean(data)),
                 make("StdDeviationToHighError", std_dev_per_mean(data)),
                 make("NotEnoughObservationsWarning", observations(data)),
                 make("NotEnoughObservationsError", observations(data))}
      [] o.t = "TestedPairProperty" ->
            LET first == Runs[pairs[o.i + 1].first][o.p]
                second == Runs[pairs[o.i + 1].second][o.p]
                make(kind, value) ==
                    create_if_valid({<<o, kind>>}, kind, Subject(o), value, o.p)
            IN  {make("EffectToSmallWarning", mean_diff_per_dev(first, second)),
                 make("EffectToSmallError", mean_diff_per_dev(first, second))}
      [] OTHER -> {}

\* the fields of a stat object after BaseStatObject.__init__: the empty
\* list (list 0); first_returned records the list its first
\* get_stat_messages call returned (0: not called yet)
NewObject == [stat_messages |-> {}, list |-> 0, first_returned |-> 0]

FirstReturned(fields, list) ==
    IF fields.first_returned = 0 THEN list ELSE fields.first_returned

\* get_stat_messages of object o on heap h; c names the list objects made
\* during this call.  The result is the set of possible outcomes: the heap
\* afterwards, the messages of the returned list and the returned list.
RECURSIVE get_stat_messages(_, _, _)
RECURSIVE GetEach(_, _, _)
get_stat_messages(o, h, c) ==
    IF o.t = "TestedPairsAndSingles"
    THEN \* lines 671-679: a new list, extended by every pair's messages
         {[heap |-> [x.heap EXCEPT ![o] =
                        [stat_messages |-> @.stat_messages, list |-> @.list,
                         first_returned |-> FirstReturned(@, c)]],
           ret |-> x.ret, list |-> c] : x \in GetEach(Children(o), h, c)}
    ELSE IF h[o].stat_messages # {}
    THEN \* lines 194, 196: the cached list
         {[heap |-> h, ret |-> h[o].stat_messages, list |-> h[o].list]}
    ELSE \* lines 194-196: combine what _get_stat_messages returns
         UNION {{[heap |-> [x.heap EXCEPT ![o] =
                               [stat_messages |-> r, list |-> c,
                                first_returned |-> FirstReturned(@, c)]],
                  ret |-> r, list |-> c] :
                    r \in combine((x.ret \cup OwnMessages(o)) \ {None})} :
                x \in GetEach(Children(o), h, c)}

GetEach(objs, h, c) ==
    IF objs = <<>> THEN {[heap |-> h, ret |-> {}]}
    ELSE UNION {{[heap |-> y.heap, ret |-> x.ret \cup y.ret] :
                    y \in GetEach(Tail(objs), x.heap, c)} :
                x \in get_stat_messages(Head(objs), h, c)}

(***************************************************************************)
(* TestedPairsAndSingles.__init__ and get_pair                              *)
(***************************************************************************)
NewTestedPair(first, second, tester) ==
    [first |-> first, second |-> second, tester |-> tester]

\* get_pair(first_id, second_id) on the singles S
get_pair(S, first_id, second_id) ==
    NewTestedPair(S[first_id + 1], S[second_id + 1], DefaultTester)

\* the two nested loops of lines 648-650
RECURSIVE AppendPairs(_, _, _, _)
AppendPairs(S, i, j, acc) ==
    IF i > Len(S) - 2 THEN acc
    ELSE IF j > Len(S) - 1 THEN AppendPairs(S, i + 1, i + 2, acc)
    ELSE AppendPairs(S, i, j + 1, Append(acc, get_pair(S, i, j)))

NoPairs == [given |-> FALSE, list |-> <<>>]

GivenPairs(list) == [given |-> TRUE, list |-> list]

\* a faulty variant of InitPairs: no pairs are built for two singles
InitPairsFromThree(S, given) ==
    IF ~given.given /\ Len(S) > 2
    THEN AppendPairs(S, 0, 1, <<>>)
    ELSE given.list

\* self.pairs after __init__(singles, pairs)
InitPairs(S, given) ==
    IF ~given.given /\ Len(S) > 1
    THEN AppendPairs(S, 0, 1, <<>>)
    ELSE given.list

NoCall == [obj |-> NoObject, msgs |-> {}, list |-> 0]

(***************************************************************************)
(* The other calls on stat objects: properties(), get_data_frame(), swap() *)
(* and has_errors()                                                        *)
(***************************************************************************)
\* TestedPairsAndSingles.properties(): None (none |-> TRUE) without singles,
\* else the sorted names every single has
properties(S) ==
    IF S = <<>> THEN [none |-> TRUE, list |-> <<>>]
    ELSE [none |-> FALSE,
          list |-> sorted(PropertySeq(
                      {q \in DOMAIN Runs[S[1]] :
                          \A i \in 2..Len(S) : q \in DOMAIN Runs[S[i]]}))]

\* the cells of a data frame: an observation, or NaN where a series is
\* shorter than the frame
Cell(x) == [nan |-> FALSE, value |-> x]

NaN == [nan |-> TRUE, value |-> 0]

\* pd.Series(data) aligned to a frame of the given number of rows
Series(data, rows) ==
    [i \in 1..rows |-> IF i <= Len(data) THEN Cell(data[i]) ELSE NaN]

RECURSIVE Longest(_, _)
Longest(series_dict, names) ==
    IF names = {} THEN 0
    ELSE LET c == CHOOSE c \in names : TRUE
             rest == Longest(series_dict, names \ {c})
         IN  IF Len(series_dict[c]) > rest THEN Len(series_dict[c]) ELSE rest

\* pd.DataFrame(series_dict, columns = columns): the row index is the union
\* of the series' indices; series[n] is the column named columns[n]
DataFrame(series_dict, columns) ==
    [columns |-> columns,
     series |-> [n \in 1..Len(columns) |->
                    Series(series_dict[columns[n]],
                           Longest(series_dict, DOMAIN series_dict))]]

NoFrame == [columns |-> <<>>, series |-> <<>>]

\* the column name "{}: {}".format(single_property, property)
ColumnName(single_property, property) == <<single_property, property>>

\* get_data_frame() of a Single or of a TestedPairProperty
get_data_frame(o) ==
    CASE o.t = "Single" ->
            LET series_dict == Runs[singles[o.i + 1]]
            IN  DataFrame(series_dict,
                          sorted(PropertySeq(DOMAIN series_dict)))
      [] o.t = "TestedPairProperty" ->
            LET first == Runs[pairs[o.i + 1].first][o.p]
                columns == <<ColumnName(SingleProperty(o.i, o.p, 1), o.p),
                             ColumnName(SingleProperty(o.i, o.p, 2), o.p)>>
                series_dict == [c \in {columns[1], columns[2]} |-> first]
            IN  DataFrame(series_dict, columns)
      [] OTHER -> NoFrame

\* a faulty variant of swap: the runs keep their roles
swap_same(pair) == NewTestedPair(pair.first, pair.second, pair.tester)

\* TestedPair.swap()
swap(pair) == NewTestedPair(pair.second, pair.first, pair.tester)

\* has_errors() on the list get_stat_messages() returned
has_errors(stat_messages) == \E x \in stat_messages : type(x.kind) = ERROR

NoTestedPair == NewTestedPair(NoRun, NoRun, NoTester)

NoResult ==
    [op |-> "-", obj |-> NoObject, none |-> FALSE, list |-> <<>>,
     frame |-> NoFrame, pair |-> NoTestedPair, original |-> NoTestedPair,
     swaps |-> 0, has_errors |-> FALSE]

(***************************************************************************)
(* The parts of the state a program does not use                            *)
(***************************************************************************)
NotCalled ==
    [id |-> {}, kind |-> "-", parent |-> NoParent, properties |-> <<>>,
     values |-> <<>>]

NoArg == [value |-> Rat(0, 1), property |-> NoProperty]

NoneCreated == [k \in Kinds |-> NotCalled]

CombineUnused ==
    /\ messages = <<>>
    /\ msgs = {}
    /\ something_changed = FALSE
    /\ pc = "idle"
    /\ ret = {}
    /\ call = "first"
    /\ n_input = 0
    /\ merges = 0
    /\ merged = NoMerge
    /\ first_ret = {}

CreateUnused ==
    /\ arg = NoArg
    /\ created = NoneCreated

StatsUnused ==
    /\ singles = <<>>
    /\ pairs = <<>>
    /\ heap = <<>>
    /\ returned = NoCall
    /\ calls = 0
    /\ pairs_arg = NoPairs
    /\ result = NoResult

(***************************************************************************)
(* Inputs of combine: messages as create_if_valid makes them, each with one *)
(* property and a value its kind rejects.                                   *)
(***************************************************************************)
MaxMessages == 3

\* a check of SingleProperty._get_stat_messages on run r, property p
SinglePropertyCheck(kind, r, p) ==
    [kind |-> kind, parent |-> SinglePropertyObj(r, p),
     value |-> IF kind \in {"StdDeviationToHighWarning", "StdDeviationToHighError"}
               THEN std_dev_per_mean(Runs[r][p])
               ELSE observations(Runs[r][p]),
     property |-> p]

\* a check of TestedPairProperty._get_stat_messages on runs r1, r2, property p
TestedPairPropertyCheck(kind, r1, r2, p) ==
    [kind |-> kind, parent |-> TestedPairPropertyObj(r1, r2, DefaultTester, p),
     value |-> mean_diff_per_dev(Runs[r1][p], Runs[r2][p]), property |-> p]

Created ==
    {SinglePropertyCheck("NotEnoughObservationsWarning", "A", "a"),
     SinglePropertyCheck("NotEnoughObservationsWarning", "A", "b"),
     SinglePropertyCheck("NotEnoughObservationsError", "A", "a"),
     SinglePropertyCheck("StdDeviationToHighWarning", "C", "b"),
     TestedPairPropertyCheck("EffectToSmallWarning", "A", "A", "a"),
     TestedPairPropertyCheck("EffectToSmallWarning", "A", "B", "b")}

NoChoice ==
    [kind |-> "None", parent |-> NoParent, value |-> Rat(0, 1),
     property |-> NoProperty]

\* the i-th argument: None, or the message created for c
Argument(i, c) ==
    IF c = NoChoice THEN None
    ELSE create_if_valid({i}, c.kind, c.parent, c.value, c.property)

InputLists ==
    UNION {[1..n -> Created \cup {NoChoice}] : n \in 0..MaxMessages}

Permutation(list, f) == [i \in 1..Len(list) |-> list[f[i]]]

Bijections(n) == {f \in [1..n -> 1..n] : \A i, j \in 1..n : i # j => f[i] # f[j]}

(***************************************************************************)
(* The combine program: a first call, then either a call on a permutation   *)
(* of the same list or a call on the result of the first.                   *)
(***************************************************************************)

Init ==
    /\ \E choice \in InputLists :
          messages = [i \in 1..Len(choice) |-> Argument(i, choice[i])]
    /\ msgs = {}
    /\ something_changed = FALSE
    /\ pc = "idle"
    /\ ret = {}
    /\ call = "first"
    /\ n_input = 0
    /\ merges = 0
    /\ merged = NoMerge
    /\ first_ret = {}
    /\ CreateUnused
    /\ StatsUnused

\* line 80-81
CombineEnter ==
    /\ pc = "idle"
    /\ msgs' = NotNone(messages)
    /\ n_input' = Cardinality(NotNone(messages))
    /\ something_changed' = TRUE
    /\ merges' = 0
    /\ merged' = NoMerge
    /\ pc' = "while"
    /\ UNCHANGED <<messages, ret, call, first_ret>>
    /\ UNCHANGED other_than_combine

\* lines 82-95: one iteration of the while loop
CombineRound ==
    /\ pc = "while"
    /\ something_changed
    /\ \E r \in Round(msgs) :
          /\ msgs' = r.msgs
          /\ something_changed' = r.something_changed
          /\ merges' = IF r.pair = <<>> THEN merges ELSE merges + 1
          /\ merged' = IF r.pair = <<>> THEN merged
                       ELSE [a |-> r.pair[1], b |-> r.pair[2],
                             sum |-> __add__(r.pair[1], r.pair[2])]
    /\ UNCHANGED <<messages, pc, ret, call, n_input, first_ret>>
    /\ UNCHANGED other_than_combine

\* line 96
CombineReturn ==
    /\ pc = "while"
    /\ ~something_changed
    /\ ret' = msgs
    /\ pc' = "returned"
    /\ first_ret' = IF call = "first" THEN Multiset(msgs) ELSE first_ret
    /\ UNCHANGED <<messages, msgs, something_changed, call, n_input, merges,
                   merged>>
    /\ UNCHANGED other_than_combine

\* the caller combines the same messages again, in another order
CallPermuted ==
    /\ pc = "returned"
    /\ call = "first"
    /\ \E f \in Bijections(Len(messages)) :
          messages' = Permutation(messages, f)
    /\ call' = "permuted"
    /\ pc' = "idle"
    /\ UNCHANGED <<msgs, something_changed, ret, n_input, merges, merged,
                   first_ret>>
    /\ UNCHANGED other_than_combine

\* the caller combines the result: combine(*combine(*messages))
CallNested ==
    /\ pc = "returned"
    /\ call = "first"
    /\ \E list \in [1..Cardinality(ret) -> ret] :
          /\ \A i, j \in 1..Cardinality(ret) : i # j => list[i] # list[j]
          /\ messages' = list
    /\ call' = "nested"
    /\ pc' = "idle"
    /\ UNCHANGED <<msgs, something_changed, ret, n_input, merges, merged,
                   first_ret>>
    /\ UNCHANGED other_than_combine

Next ==
    \/ CombineEnter
    \/ CombineRound
    \/ CombineReturn
    \/ CallPermuted
    \/ CallNested

Spec == Init /\ [][Next]_vars

(***************************************************************************)
(* create_if_valid on its own: one value and property, the six kinds        *)
(* called in any order.                                                     *)
(***************************************************************************)
Values ==
    {Rat(0, 1), Rat(1, 100), Rat(10001, 1000000), Rat(3, 100), Rat(5, 100),
     Rat(50001, 1000000), Rat(1, 10), Rat(-1, 2), Rat(1, 2), Rat(1, 1),
     Rat(3, 2), Rat(2, 1), Rat(3, 1), Rat(10, 1), Rat(14, 1), Rat(15, 1),
     Rat(29, 1), Rat(30, 1), Rat(50, 1)}

InitCreate ==
    /\ arg \in [value : Values, property : {"a", "b"}]
    /\ created = NoneCreated
    /\ CombineUnused
    /\ StatsUnused

\* lines 110-120, for the class `kind` and a SingleProperty or
\* TestedPairProperty subject
CreateIfValid(kind) ==
    /\ created[kind] = NotCalled
    /\ created' =
          [created EXCEPT ![kind] =
              create_if_valid({kind}, kind,
                              SinglePropertyObj("A", arg.property),
                              arg.value, arg.property)]
    /\ UNCHANGED arg
    /\ UNCHANGED other_than_create

NextCreate == \E kind \in Kinds : CreateIfValid(kind)

SpecCreate == InitCreate /\ [][NextCreate]_vars

(***************************************************************************)
(* The stat objects: a TestedPairsAndSingles is constructed over a list of  *)
(* runs, with or without a list of pairs, and the caller asks objects of    *)
(* the graph for their messages.                                            *)
(***************************************************************************)
MaxSingles == 3

MaxCalls == 2

\* the lists of runs given to the constructor: distinct runs, in any order
SingleLists ==
    UNION {{S \in [1..n -> RunNames] : \A i, j \in 1..n : i # j => S[i] # S[j]} :
              n \in 0..MaxSingles}

PairArgs(S) ==
    {NoPairs, GivenPairs(<<>>)}
    \cup {GivenPairs(<<get_pair(S, i, j)>>) : i, j \in 0..(Len(S) - 1)}

InitStats ==
    /\ \E S \in SingleLists : \E given \in PairArgs(S) :
          /\ singles = S
          /\ pairs_arg = given
          /\ pairs = InitPairs(S, given)
          /\ heap = [o \in Objects(S, InitPairs(S, given)) |-> NewObject]
    /\ returned = NoCall
    /\ calls = 0
    /\ result = NoResult
    /\ CombineUnused
    /\ CreateUnused

GetStatMessages(o) ==
    /\ calls < MaxCalls
    /\ \E x \in get_stat_messages(o, heap, calls + 1) :
          /\ heap' = x.heap
          /\ returned' = [obj |-> o, msgs |-> x.ret, list |-> x.list]
    /\ calls' = calls + 1
    /\ result' = NoResult
    /\ UNCHANGED <<singles, pairs, pairs_arg>>
    /\ UNCHANGED other_than_stats

\* has_errors() (lines 207-208): get_stat_messages(), then any ERROR
HasErrors(o) ==
    /\ calls < MaxCalls
    /\ \E x \in get_stat_messages(o, heap, calls + 1) :
          /\ heap' = x.heap
          /\ returned' = [obj |-> o, msgs |-> x.ret, list |-> x.list]
          /\ result' = [NoResult EXCEPT !.op = "has_errors", !.obj = o,
                                        !.has_errors = has_errors(x.ret)]
    /\ calls' = calls + 1
    /\ UNCHANGED <<singles, pairs, pairs_arg>>
    /\ UNCHANGED other_than_stats

NextStats ==
    \E o \in Callable(singles, pairs) : GetStatMessages(o) \/ HasErrors(o)

SpecStats == InitStats /\ [][NextStats]_vars

(***************************************************************************)
(* Program 4: the collection is built as in program 3, and the caller asks *)
(* it for its shared properties, asks objects for their data frames and    *)
(* swaps pairs.  None of these calls changes a stat object.                *)
(***************************************************************************)
MaxSwaps == 2

Properties ==
    /\ result' = [NoResult EXCEPT !.op = "properties", !.obj = Collection,
                                  !.none = properties(singles).none,
                                  !.list = properties(singles).list]
    /\ UNCHANGED <<singles, pairs, heap, returned, calls, pairs_arg>>
    /\ UNCHANGED other_than_stats

GetDataFrame(o) ==
    /\ o.t \in {"Single", "TestedPairProperty"}
    /\ result' = [NoResult EXCEPT !.op = "get_data_frame", !.obj = o,
                                  !.frame = get_data_frame(o)]
    /\ UNCHANGED <<singles, pairs, heap, returned, calls, pairs_arg>>
    /\ UNCHANGED other_than_stats

\* pairs[k].swap()
Swap(k) ==
    /\ result' = [NoResult EXCEPT !.op = "swap", !.obj = TestedPair(k),
                                  !.pair = swap(pairs[k + 1]),
                                  !.original = pairs[k + 1],
                                  !.swaps = 1]
    /\ UNCHANGED <<singles, pairs, heap, returned, calls, pairs_arg>>
    /\ UNCHANGED other_than_stats

\* swap() on the pair the last swap() returned
SwapAgain ==
    /\ result.op = "swap"
    /\ result.swaps < MaxSwaps
    /\ result' = [result EXCEPT !.pair = swap(result.pair),
                                !.swaps = result.swaps + 1]
    /\ UNCHANGED <<singles, pairs, heap, returned, calls, pairs_arg>>
    /\ UNCHANGED other_than_stats

NextQueries ==
    \/ Properties
    \/ \E o \in Callable(singles, pairs) : GetDataFrame(o)
    \/ \E k \in 0..(Len(pairs) - 1) : Swap(k)
    \/ SwapAgain

SpecQueries == InitStats /\ [][NextQueries]_vars

(***************************************************************************)
(* Claims about merge and combine (specification Spec)                      *)
(***************************************************************************)

\* C1: msg + msg2 keeps each value next to the property it was created for:
\* every (property, value) pair of the sum is a pair of one of the operands.
C1_MergePreservesPairing ==
    merged # NoMerge =>
        Pairs(merged.sum) \subseteq (Pairs(merged.a) \cup Pairs(merged.b))

\* C2: combine of a permutation of the same messages, whatever the order in
\* which the mergeable pairs are found, returns the same multiset of
\* (kind, properties, values) as the first call.
C2_CombineOrderInvariant ==
    (call = "permuted" /\ pc = "returned") => Multiset(ret) = first_ret

\* C6: combine terminates: a round that merges removes two messages and adds
\* one, so messages + merges stays the number of non-None inputs, at most
\* n - 1 merges happen, and no mergeable pair is left in the result.
C6_CombineTerminates ==
    /\ pc = "while" =>
          /\ Cardinality(msgs) + merges = n_input
          /\ n_input >= 1 => merges <= n_input - 1
          /\ ~something_changed => MergeablePairs(msgs) = {}
    /\ pc = "returned" =>
          /\ Cardinality(ret) + merges = n_input
          /\ MergeablePairs(ret) = {}

C6_Witness ==
    /\ pc = "returned"
    /\ n_input = 3
    /\ merges = 2

\* C9: combine over the result of combine merges nothing and returns exactly
\* the messages it was given.
C9_CombineIdempotent ==
    (call = "nested" /\ pc \in {"while", "returned"}) =>
        /\ merges = 0
        /\ msgs = NotNone(messages)
        /\ Multiset(msgs) = first_ret
        /\ pc = "returned" => ret = NotNone(messages)

C9_Witness ==
    /\ call = "nested"
    /\ pc = "returned"
    /\ \E m \in ret : Len(m.properties) = 3
    /\ Cardinality(ret) = 1

(***************************************************************************)
(* Claims about create_if_valid (specification SpecCreate)                  *)
(***************************************************************************)
\* the thresholds as the kinds' documentation states them
Warranted(kind, v) ==
    CASE kind = "StdDeviationToHighWarning" -> v.num * 100 > v.den
      [] kind = "StdDeviationToHighError" -> v.num * 100 > 5 * v.den
      [] kind = "NotEnoughObservationsWarning" -> v.num < 30 * v.den
      [] kind = "NotEnoughObservationsError" -> v.num < 15 * v.den
      [] kind = "EffectToSmallWarning" -> v.num < 2 * v.den
      [] kind = "EffectToSmallError" -> v.num < v.den

WarningOf(kind) ==
    CASE kind = "StdDeviationToHighError" -> "StdDeviationToHighWarning"
      [] kind = "NotEnoughObservationsError" -> "NotEnoughObservationsWarning"
      [] kind = "EffectToSmallError" -> "EffectToSmallWarning"
      [] OTHER -> kind

\* C10: create_if_valid returns None iff the kind's check accepts the value,
\* otherwise one message of the kind with the subject, property and value;
\* each kind has its own inclusive threshold, and an error is never created
\* without its advisory being created for the same value.
C10_CreateIfValid ==
    \A kind \in Kinds :
        created[kind] # NotCalled =>
            /\ (created[kind] = None) <=> check_value(kind, arg.value)
            /\ (created[kind] = None) <=> ~Warranted(kind, arg.value)
            /\ created[kind] # None =>
                  /\ created[kind].kind = kind
                  /\ created[kind].parent = SinglePropertyObj("A", arg.property)
                  /\ created[kind].properties = <<arg.property>>
                  /\ created[kind].values = <<arg.value>>
                  /\ created[WarningOf(kind)] \notin {None}

C10_Witness ==
    /\ arg.value = Rat(5, 100)
    /\ created["StdDeviationToHighError"] = None
    /\ created["StdDeviationToHighWarning"] \notin {None, NotCalled}
    /\ created["NotEnoughObservationsError"] \notin {None, NotCalled}
    /\ created["NotEnoughObservationsWarning"] \notin {None, NotCalled}

(***************************************************************************)
(* Claims about the stat objects (specification SpecStats)                  *)
(***************************************************************************)
TestedPairProperties == {o \in DOMAIN heap : o.t = "TestedPairProperty"}

SameRuns(x, y) ==
    /\ pairs[x.i + 1].first = pairs[y.i + 1].first
    /\ pairs[x.i + 1].second = pairs[y.i + 1].second

\* every message held by an object of the graph or just returned
AllMessages ==
    UNION {heap[o].stat_messages : o \in DOMAIN heap} \cup returned.msgs

Range(s) == {s[i] : i \in 1..Len(s)}

\* C3: two TestedPairProperty objects over the same two runs (same order,
\* same tester) and different properties are eq_except_property, and combine
\* merges their messages of one kind; two over different run pairs are not
\* eq_except_property.
C3_EqExceptProperty ==
    /\ \A x, y \in TestedPairProperties :
          /\ (SameRuns(x, y) /\ x.p # y.p /\
              TesterEq(pairs[x.i + 1].tester, pairs[y.i + 1].tester))
                => eq_except_property(Subject(x), Subject(y))
          /\ ~SameRuns(x, y) => ~eq_except_property(Subject(x), Subject(y))
    /\ \A o \in DOMAIN heap :
          o.t = "TestedPair" =>
              \A m1, m2 \in heap[o].stat_messages :
                  (/\ m1.kind = m2.kind
                   /\ m1.parent.cls = "TestedPairProperty"
                   /\ m2.parent.cls = "TestedPairProperty") => m1 = m2

\* C4: nothing is computed at construction, and once get_stat_messages has
\* been called on an object every call returns the list object the first
\* call returned.
C4_CachedList ==
    /\ \A o \in DOMAIN heap :
          heap[o].first_returned = 0 =>
              heap[o].list = 0 /\ heap[o].stat_messages = {}
    /\ returned # NoCall =>
          returned.list = heap[returned.obj].first_returned

\* C5: the list the collection returns holds no two messages of the same
\* kind whose subjects are equal except for property.
C5_CollectionCombined ==
    returned.obj = Collection => MergeablePairs(returned.msgs) = {}

\* C7: in the collection's diagnostics, a property of a sample with fewer
\* than 15 observations is named by both Insufficient-observations messages,
\* and one with at least 30 observations by neither.
C7_InsufficientObservations ==
    returned.obj = Collection =>
        \A i \in 1..Len(singles) : \A p \in DOMAIN Runs[singles[i]] :
            LET n == Len(Runs[singles[i]][p])
                Named(kind) ==
                    \E m \in returned.msgs :
                        /\ m.kind = kind
                        /\ m.parent.cls = "SingleProperty"
                        /\ m.parent.first = singles[i]
                        /\ p \in Range(m.properties)
            IN  /\ n < 15 => /\ Named("NotEnoughObservationsWarning")
                             /\ Named("NotEnoughObservationsError")
                /\ n >= 30 => /\ ~Named("NotEnoughObservationsWarning")
                              /\ ~Named("NotEnoughObservationsError")

\* C8: every message has a sorted property list without duplicates and a
\* value list of the same length.
C8_SortedNoDuplicates ==
    \A m \in AllMessages :
        /\ IsSorted(m.properties)
        /\ NoDuplicates(m.properties)
        /\ Len(m.values) = Len(m.properties)

(***************************************************************************)
(* Claims about construction, properties(), swap() and get_data_frame()    *)
(* (specification SpecQueries)                                             *)
(***************************************************************************)
\* the place of the index pair (i, j), i < j, among the pairs of n singles
\* in ascending (i, then j) order, counted from 1
PairIndex(n, i, j) == i * (n - 1) - ((i * (i - 1)) \div 2) + (j - i)

\* C11: a collection built from n >= 2 samples without explicit pairs has
\* n * (n - 1) / 2 pairs, the pair of samples i < j at the place of (i, j) in
\* ascending order, with sample i first and sample j second; with fewer than
\* 2 samples it has no pairs; explicitly given pairs are kept as given.
C11_PairList ==
    LET n == Len(singles)
    IN  /\ (~pairs_arg.given /\ n >= 2) =>
              /\ Len(pairs) = (n * (n - 1)) \div 2
              /\ \A i, j \in 0..(n - 1) :
                    i < j =>
                        /\ pairs[PairIndex(n, i, j)].first = singles[i + 1]
                        /\ pairs[PairIndex(n, i, j)].second = singles[j + 1]
        /\ (~pairs_arg.given /\ n < 2) => pairs = <<>>
        /\ pairs_arg.given => pairs = pairs_arg.list

C11_Witness ==
    /\ ~pairs_arg.given
    /\ Len(singles) = 3
    /\ Len(pairs) = 3
    /\ pairs[2].first = singles[1]
    /\ pairs[2].second = singles[3]

\* C12: properties() of a collection returns a list: the sorted names that
\* every sample has, and the empty list for a collection without samples.
C12_SharedProperties ==
    result.op = "properties" =>
        /\ ~result.none
        /\ IsSorted(result.list)
        /\ NoDuplicates(result.list)
        /\ \A p \in Range(PropertyNames) :
              p \in Range(result.list) <=>
                  /\ singles # <<>>
                  /\ \A i \in 1..Len(singles) : p \in DOMAIN Runs[singles[i]]

Neg(x) == Rat(0 - x.num, x.den)

RatEq(x, y) == x.num * y.den = y.num * x.den

\* C13: swap() of a pair (A, B) returns a pair (B, A) with the same tester
\* and the same shared properties and leaves the pair unchanged; for every
\* shared property the mean_diff of the swapped pair is the negation of the
\* pair's; swapping the result again gives a pair equal to the original.
C13_Swap ==
    result.op = "swap" =>
        LET o == result.original
            w == result.pair
        IN  /\ pairs[result.obj.i + 1] = o
            /\ w.tester = o.tester
            /\ SharedProperties(w) = SharedProperties(o)
            /\ result.swaps = 1 =>
                  /\ w.first = o.second
                  /\ w.second = o.first
                  /\ \A p \in SharedProperties(o) :
                        RatEq(mean_diff(Runs[w.first][p], Runs[w.second][p]),
                              Neg(mean_diff(Runs[o.first][p],
                                            Runs[o.second][p])))
            /\ result.swaps = 2 =>
                  /\ eq_except_property(
                        TestedPairObj(o.first, o.second, o.tester),
                        TestedPairObj(w.first, w.second, w.tester))
                  /\ w = o

C13_Witness ==
    /\ result.op = "swap"
    /\ result.swaps = 2
    /\ result.original.first # result.original.second
    /\ \E p \in SharedProperties(result.original) :
          ~RatEq(mean(Runs[result.original.first][p]),
                 mean(Runs[result.original.second][p]))

\* a column of a frame holds exactly the observations of data, in order
Holds(series, data) ==
    /\ Len(series) = Len(data)
    /\ \A i \in 1..Len(series) :
          ~series[i].nan /\ series[i].value = data[i]

\* C14: the data frame of a Single has the sorted property names as columns
\* and the column of property P holds the run's observations of P in order;
\* the data frame of a TestedPairProperty has two columns, the first holding
\* the first run's observations and the second the second run's.
C14_DataFrame ==
    result.op = "get_data_frame" =>
        LET o == result.obj
            frame == result.frame
        IN  /\ o.t = "Single" =>
                  /\ frame.columns =
                        PropertySeq(DOMAIN Runs[singles[o.i + 1]])
                  /\ \A n \in 1..Len(frame.columns) :
                        Holds(frame.series[n],
                              Runs[singles[o.i + 1]][frame.columns[n]])
            /\ o.t = "TestedPairProperty" =>
                  /\ Len(frame.columns) = 2
                  /\ Holds(frame.series[1], Runs[pairs[o.i + 1].first][o.p])
                  /\ Holds(frame.series[2], Runs[pairs[o.i + 1].second][o.p])

(***************************************************************************)
(* Conservation by combine (specification Spec)                            *)
(***************************************************************************)
RECURSIVE Occurrences(_, _)
Occurrences(s, x) ==
    IF s = <<>> THEN 0
    ELSE (IF Head(s) = x THEN 1 ELSE 0) + Occurrences(Tail(s), x)

\* how often property p is named by the messages of a kind in S
RECURSIVE PropertyCount(_, _, _)
PropertyCount(S, kind, p) ==
    IF S = {} THEN 0
    ELSE LET m == CHOOSE m \in S : TRUE
         IN  (IF m.kind = kind THEN Occurrences(m.properties, p) ELSE 0)
             + PropertyCount(S \ {m}, kind, p)

\* how often value v is carried by the messages of a kind in S
RECURSIVE ValueCount(_, _, _)
ValueCount(S, kind, v) ==
    IF S = {} THEN 0
    ELSE LET m == CHOOSE m \in S : TRUE
         IN  (IF m.kind = kind THEN Occurrences(m.values, v) ELSE 0)
             + ValueCount(S \ {m}, kind, v)

\* the messages combine holds at this point, or has returned
Current == IF pc = "returned" THEN ret ELSE msgs

\* the messages create_if_valid makes, wherever they stand in the list
CreatedArguments ==
    {Argument(i, c) : i \in 1..MaxMessages, c \in Created \cup {NoChoice}}

\* C15: during and after combine, for each kind the property names of the
\* messages of that kind are those of the input messages of that kind, each
\* as often, and likewise the values; a sum has the kind and the subject of
\* its first operand; the input messages stay as they were created.
C15_CombineConserves ==
    pc \in {"while", "returned"} =>
        LET input == NotNone(messages)
            values == UNION {Range(m.values) : m \in input \cup Current}
        IN  /\ \A kind \in Kinds :
                  /\ \A p \in Range(PropertyNames) :
                        PropertyCount(Current, kind, p)
                            = PropertyCount(input, kind, p)
                  /\ \A v \in values :
                        ValueCount(Current, kind, v)
                            = ValueCount(input, kind, v)
            /\ merged # NoMerge =>
                  /\ merged.sum.kind = merged.a.kind
                  /\ merged.sum.kind = merged.b.kind
                  /\ merged.sum.parent = merged.a.parent
            /\ call # "nested" =>
                  \A i \in 1..Len(messages) : messages[i] \in CreatedArguments

C15_Witness ==
    /\ pc = "returned"
    /\ merges >= 1
    /\ \E m1, m2 \in ret :
          /\ type(m1.kind) = WARNING
          /\ type(m2.kind) = ERROR
          /\ eq_except_property(m1.parent, m2.parent)
          /\ Len(m1.properties) = 2

(***************************************************************************)
(* The effect size (specification SpecStats)                               *)
(***************************************************************************)
Zero == Rat(0, 1)

One == Rat(1, 1)

PositiveMeans(k, p) ==
    /\ ~Leq(mean(Runs[pairs[k + 1].first][p]), Zero)
    /\ ~Leq(mean(Runs[pairs[k + 1].second][p]), Zero)

\* the returned list holds a message of the kind about property p of
\* pairs[k]
Produced(k, p, kind) ==
    \E m \in returned.msgs :
        /\ m.kind = kind
        /\ m.parent.cls = "TestedPairProperty"
        /\ m.parent.first = pairs[k + 1].first
        /\ m.parent.second = pairs[k + 1].second
        /\ p \in Range(m.properties)

====
